---- MODULE Spec2Model ----
(***************************************************************************)
(* Model of the youtube-video-to-tweet MCP server: process start-up, the   *)
(* ListTools handler, the CallTool handler with its three tool cases, and  *)
(* the service methods the cases call.                                     *)
(*                                                                         *)
(* Strings are TLA+ strings (TLC evaluates Len, \o, SubSeq, Head and Tail  *)
(* on them).  The emoji and markdown decoration of the message templates  *)
(* is written in ASCII and the long prose of the prompt templates is      *)
(* shortened; every control character (\n) of the templates, and every    *)
(* interpolated value, is kept where the source has it.                   *)
(***************************************************************************)
EXTENDS Integers, Sequences, FiniteSets, TLC

VARIABLES env, proc, exitCode, exitCause, youtubeService, typeFullyService,
          calls, last, firstList, lastList, stdoutWrite, stdout, tryResult

vars == <<env, proc, exitCode, exitCause, youtubeService, typeFullyService,
          calls, last, firstList, lastList, stdoutWrite, stdout, tryResult>>

(***************************************************************************)
(* Bounds of the model.                                                    *)
(***************************************************************************)
\* number of tool calls that may be in flight (suspended at an await) at once
MaxCalls == 2

CallIds == 1..MaxCalls

(***************************************************************************)
(* String helpers: the JavaScript string operations the source uses.       *)
(***************************************************************************)
CharAt(s, i) == SubSeq(s, i, i)

\* \s of a JavaScript regular expression, and the characters trim() removes
\* (the members a TLA+ string can spell)
IsSpace(c) == c \in {" ", "\t", "\n", "\r"}

\* s.includes(sub)
Contains(s, sub) ==
    \E i \in 1..(Len(s) - Len(sub) + 1) : SubSeq(s, i, i + Len(sub) - 1) = sub

HasCtl(s) == \E i \in 1..Len(s) : CharAt(s, i) \in {"\r", "\n", "\t"}

\* message.replace(/[\r\n\t]/g, " ")
RECURSIVE ReplaceCtl(_)
ReplaceCtl(s) ==
    IF s = "" THEN ""
    ELSE (IF Head(s) \in {"\r", "\n", "\t"} THEN " " ELSE Head(s)) \o ReplaceCtl(Tail(s))

\* String.prototype.trim
Trim(s) ==
    LET keep == {i \in 1..Len(s) : ~IsSpace(CharAt(s, i))}
    IN  IF keep = {} THEN ""
        ELSE SubSeq(s, CHOOSE i \in keep : \A j \in keep : i <= j,
                       CHOOSE i \in keep : \A j \in keep : i >= j)

\* s.replace(/\s+/g, " ")
RECURSIVE CollapseSpace(_)
CollapseSpace(s) ==
    IF s = "" THEN ""
    ELSE IF IsSpace(Head(s))
         THEN IF Len(s) > 1 /\ IsSpace(CharAt(s, 2))
              THEN CollapseSpace(Tail(s))
              ELSE " " \o CollapseSpace(Tail(s))
         ELSE Head(s) \o CollapseSpace(Tail(s))

\* array.join(sep)
RECURSIVE Join(_, _)
Join(parts, sep) ==
    IF parts = <<>> THEN ""
    ELSE IF Len(parts) = 1 THEN parts[1]
    ELSE parts[1] \o sep \o Join(Tail(parts), sep)

CharsOf(s) == {CharAt(s, i) : i \in 1..Len(s)}

UpperCase == "ABCDEFGHIJKLMNOPQRSTUVWXYZ"
LowerCase == "abcdefghijklmnopqrstuvwxyz"
Digits    == "0123456789"

\* String.prototype.toLowerCase
RECURSIVE ToLowerCase(_)
ToLowerCase(s) ==
    IF s = "" THEN ""
    ELSE LET c == Head(s)
             at == {i \in 1..Len(UpperCase) : CharAt(UpperCase, i) = c}
         IN  (IF at = {} THEN c ELSE CharAt(LowerCase, CHOOSE i \in at : TRUE))
             \o ToLowerCase(Tail(s))

(***************************************************************************)
(* JSON values of an argument mapping.  Every value carries all fields so  *)
(* that values of different types compare.                                 *)
(***************************************************************************)
Str(x)  == [t |-> "string",  s |-> x,  n |-> 0, b |-> FALSE]
Num(x)  == [t |-> "number",  s |-> "", n |-> x, b |-> FALSE]
Bool(x) == [t |-> "boolean", s |-> "", n |-> 0, b |-> x]
Null    == [t |-> "null",    s |-> "", n |-> 0, b |-> FALSE]

\* the value of a destructured property: args[f], or undefined
Undefined == [t |-> "undefined", s |-> "", n |-> 0, b |-> FALSE]
Get(obj, f) == IF f \in DOMAIN obj THEN obj[f] ELSE Undefined

(***************************************************************************)
(* Errors and completions.  An error value is what a throw statement       *)
(* raises: isError is `instanceof Error`.  A completion is how a block of  *)
(* code ends: by return (value) or by throw (error).                       *)
(***************************************************************************)
NoError == [isError |-> FALSE, message |-> ""]
NewError(msg) == [isError |-> TRUE, message |-> msg]
NonErrorValue == [isError |-> FALSE, message |-> "thrown value"]

TextResult(text) == [content |-> <<[type |-> "text", text |-> text]>>]
ErrorResult(text) == [content |-> <<[type |-> "text", text |-> text]>>, isError |-> TRUE]

Return(v) == [type |-> "return", value |-> v, error |-> NoError]
Throw(e)  == [type |-> "throw", value |-> TextResult(""), error |-> e]

\* the isError flag of a ToolResult as a client reads it: absent is not set
IsErrorSet(r) == "isError" \in DOMAIN r /\ r.isError = TRUE

(***************************************************************************)
(* zod: z.object({...}).parse(args)                                        *)
(***************************************************************************)
ZString(f, minLen) ==
    [name |-> f, kind |-> "string", optional |-> FALSE, minLen |-> minLen,
     ranged |-> FALSE, min |-> 0, max |-> 0, options |-> {}]
ZNumber(f, lo, hi) ==
    [name |-> f, kind |-> "number", optional |-> FALSE, minLen |-> 0,
     ranged |-> TRUE, min |-> lo, max |-> hi, options |-> {}]
ZBoolean(f) ==
    [name |-> f, kind |-> "boolean", optional |-> FALSE, minLen |-> 0,
     ranged |-> FALSE, min |-> 0, max |-> 0, options |-> {}]
ZEnum(f, opts) ==
    [name |-> f, kind |-> "enum", optional |-> FALSE, minLen |-> 0,
     ranged |-> FALSE, min |-> 0, max |-> 0, options |-> opts]
Optional(z) == [z EXCEPT !.optional = TRUE]

\* a validator that checks presence and primitive type only
IssueOfTypesOnly(z, v) ==
    IF v.t = "undefined" THEN (IF z.optional THEN "" ELSE "invalid_type")
    ELSE IF z.kind \in {"string", "enum"} THEN (IF v.t # "string" THEN "invalid_type" ELSE "")
    ELSE IF v.t # z.kind THEN "invalid_type" ELSE ""

\* the issue code zod reports for value v of field z, "" when v is accepted
IssueOf(z, v) ==
    IF v.t = "undefined" THEN (IF z.optional THEN "" ELSE "invalid_type")
    ELSE IF z.kind = "string" THEN
        IF v.t # "string" THEN "invalid_type"
        ELSE IF Len(v.s) < z.minLen THEN "too_small" ELSE ""
    ELSE IF z.kind = "number" THEN
        IF v.t # "number" THEN "invalid_type"
        ELSE IF z.ranged /\ v.n < z.min THEN "too_small"
        ELSE IF z.ranged /\ v.n > z.max THEN "too_big" ELSE ""
    ELSE IF z.kind = "boolean" THEN
        IF v.t # "boolean" THEN "invalid_type" ELSE ""
    ELSE \* enum
        IF v.t # "string" THEN "invalid_type"
        ELSE IF v.s \notin z.options THEN "invalid_enum_value" ELSE ""

RECURSIVE Issues(_, _)
Issues(schema, args) ==
    IF schema = <<>> THEN <<>>
    ELSE LET z == Head(schema)
             code == IssueOf(z, Get(args, z.name))
         IN  (IF code = "" THEN <<>>
              ELSE <<"  {\n    \"code\": \"" \o code \o "\",\n    \"path\": [\""
                     \o z.name \o "\"]\n  }">>)
             \o Issues(Tail(schema), args)

\* ZodError.message: JSON.stringify(issues, null, 2)
ZodMessage(issues) == "[\n" \o Join(issues, ",\n") \o "\n]"

DeclaredKeys(schema) == {schema[i].name : i \in 1..Len(schema)}

\* a z.object that rejects unrecognised keys (z.object(...).strict())
ParseStrict(schema, args) ==
    LET issues == Issues(schema, args)
                  \o (IF DOMAIN args \subseteq DeclaredKeys(schema) THEN <<>>
                      ELSE <<"  {\n    \"code\": \"unrecognized_keys\"\n  }">>)
    IN  IF issues = <<>>
        THEN [ok |-> TRUE, data |-> args, error |-> NoError]
        ELSE [ok |-> FALSE, data |-> <<>>, error |-> NewError(ZodMessage(issues))]

\* schema.parse(args): the declared keys of args when every field is accepted
\* (unrecognised keys are stripped), a thrown ZodError otherwise
Parse(schema, args) ==
    LET issues == Issues(schema, args)
    IN  IF issues = <<>>
        THEN [ok |-> TRUE,
              data |-> [f \in DOMAIN args \cap DeclaredKeys(schema) |-> args[f]],
              error |-> NoError]
        ELSE [ok |-> FALSE, data |-> <<>>, error |-> NewError(ZodMessage(issues))]

YouTubeTranscriptSchema == <<ZString("videoUrl", 1)>>

GenerateTweetsSchema ==
    <<ZString("transcript", 1),
      ZString("prompt", 1),
      Optional(ZNumber("maxTweets", 1, 10)),
      Optional(ZEnum("style", {"conversational", "informative", "engaging", "professional"})),
      Optional(ZEnum("format", {"thread", "single"}))>>

CreateDraftSchema ==
    <<ZString("content", 0),
      Optional(ZBoolean("threadify")),
      Optional(ZString("scheduleDate", 0)),
      Optional(ZBoolean("share"))>>

(***************************************************************************)
(* What axios resolves or rejects with.  kind is "ok" (data is the         *)
(* response body; defined = FALSE is a body that is not an object),        *)
(* "axiosError" (status "undefined" when no response was received, dataMsg *)
(* "" when the body carries no message), "error" (another Error) or        *)
(* "nonError" (a thrown value that is not an Error).                       *)
(***************************************************************************)
Ok(data) == [kind |-> "ok", data |-> data, status |-> "200", dataMsg |-> "", message |-> ""]
Malformed == [defined |-> FALSE]
AxiosError(status, dataMsg, message) ==
    [kind |-> "axiosError", data |-> Malformed, status |-> status,
     dataMsg |-> dataMsg, message |-> message]
OtherError(message) ==
    [kind |-> "error", data |-> Malformed, status |-> "", dataMsg |-> "", message |-> message]
NonError ==
    [kind |-> "nonError", data |-> Malformed, status |-> "", dataMsg |-> "", message |-> ""]

(***************************************************************************)
(* YouTubeService                                                          *)
(***************************************************************************)
UrlPrefixes == <<"youtube.com/watch?v=", "youtu.be/", "youtube.com/embed/">>
StopChars == {"&", "\n", "?", "#"}
IdChars == CharsOf(LowerCase) \cup CharsOf(UpperCase) \cup CharsOf(Digits) \cup {"_", "-"}

\* the prefix alternatives that match url at position i with at least one
\* character of [^&\n?#] after them
PrefixesAt(url, i) ==
    {k \in 1..Len(UrlPrefixes) :
        LET e == i + Len(UrlPrefixes[k]) - 1
        IN  /\ e < Len(url)
            /\ SubSeq(url, i, e) = UrlPrefixes[k]
            /\ CharAt(url, e + 1) \notin StopChars}

\* extractVideoId(url): the first capture of the first pattern that matches
ExtractVideoId(url) ==
    LET starts == {i \in 1..Len(url) : PrefixesAt(url, i) # {}}
    IN  IF starts # {}
        THEN LET i == CHOOSE x \in starts : \A y \in starts : x <= y
                 k == CHOOSE x \in PrefixesAt(url, i) : \A y \in PrefixesAt(url, i) : x <= y
                 b == i + Len(UrlPrefixes[k])
                 ends == {e \in b..Len(url) :
                             \A j \in b..e : CharAt(url, j) \notin StopChars}
             IN  Return(SubSeq(url, b, CHOOSE x \in ends : \A y \in ends : x >= y))
        ELSE IF Len(url) = 11 /\ \A j \in 1..11 : CharAt(url, j) \in IdChars
        THEN Return(url)
        ELSE Throw(NewError("Invalid YouTube URL or video ID"))

\* the axios.get call of getTranscript
TranscriptRequest(videoId, svc) ==
    [method |-> "GET", url |-> svc.baseUrl \o "/transcript",
     body |-> [videoId |-> Str(videoId)], apiKey |-> svc.apiKey]

\* getTranscript after its await: the response body, or the fault it raises
GetTranscriptSettle(out) ==
    IF out.kind = "ok" THEN Return(out.data)
    ELSE IF out.kind = "axiosError"
    THEN Throw(NewError("Failed to fetch transcript: "
                        \o (IF out.dataMsg # "" THEN out.dataMsg ELSE out.message)))
    ELSE IF out.kind = "error" THEN Throw(NewError(out.message))
    ELSE Throw(NonErrorValue)

\* a transcriptToText that joins the segments with no separator
TranscriptToTextUnspaced(transcript) == Trim(CollapseSpace(Join(transcript.content, "")))

\* transcriptToText(transcript)
TranscriptToText(transcript) == Trim(CollapseSpace(Join(transcript.content, " ")))

(***************************************************************************)
(* TypefullyService                                                        *)
(***************************************************************************)
\* the axios.post call of createDraft: the payload holds the optional
\* parameters that were provided
DraftRequest(content, options, svc) ==
    [method |-> "POST", url |-> svc.baseUrl \o "/drafts/",
     body |-> [f \in {"content"}
                     \cup {g \in {"threadify", "share"} : options[g].t # "undefined"}
                     \cup (IF options.scheduleDate.t = "string" /\ options.scheduleDate.s # ""
                           THEN {"schedule-date"} ELSE {})
               |-> IF f = "content" THEN content
                   ELSE IF f = "schedule-date" THEN options.scheduleDate
                   ELSE options[f]],
     apiKey |-> "Bearer " \o svc.apiKey]

\* createDraft after its await: the response body, or the fault it raises
CreateDraftSettle(out) ==
    IF out.kind = "ok" THEN Return(out.data)
    ELSE IF out.kind = "axiosError"
    THEN Throw(NewError("Typefully API error: " \o out.status \o " - "
                        \o (IF out.dataMsg # "" THEN out.dataMsg ELSE out.message)))
    ELSE IF out.kind = "error" THEN Throw(NewError(out.message))
    ELSE Throw(NonErrorValue)

(***************************************************************************)
(* TweetGenerationService                                                  *)
(***************************************************************************)
WordChars == CharsOf(LowerCase) \cup CharsOf(UpperCase) \cup CharsOf(Digits) \cup {"_"}

\* s.replace(/[^\w\s.,!?-]/g, "")
RECURSIVE StripSymbols(_)
StripSymbols(s) ==
    IF s = "" THEN ""
    ELSE (IF Head(s) \in WordChars \cup {".", ",", "!", "?", "-"} \/ IsSpace(Head(s))
          THEN Head(s) ELSE "")
         \o StripSymbols(Tail(s))

CleanTranscript(transcript) == Trim(StripSymbols(CollapseSpace(transcript)))

DefaultMaxTweets == 5

StyleGuideline(style) ==
    IF style = "engaging" THEN "Create tweets that are exciting."
    ELSE IF style = "professional" THEN "Create tweets that are authoritative."
    ELSE IF style = "conversational" THEN "Create tweets that feel like conversation."
    ELSE "Create tweets that focus on educating."

\* generatePromptAndInstructions(format, style, maxTweets, userPrompt, ...)
GeneratePromptAndInstructions(format, style, maxTweets, userPrompt, includeEmojis, includeCallToAction) ==
    [systemPrompt |->
        "You are an expert creating " \o style \o " tweets.\n\n"
        \o "STYLE: " \o StyleGuideline(style) \o "\n\n"
        \o "FORMAT: " \o (IF format = "single" THEN "ONE single tweet within 280 characters."
                          ELSE "A tweet thread.") \o "\n\n"
        \o "EMOJIS: " \o (IF includeEmojis THEN "Include relevant emojis."
                          ELSE "Do not include any emojis.") \o "\n\n"
        \o "ENGAGEMENT: " \o (IF includeCallToAction THEN "Include calls-to-action."
                              ELSE "No explicit calls-to-action.") \o "\n\n"
        \o "IMPORTANT: Every tweet must be under 280 characters.",
     instructions |->
        userPrompt \o "\n\n"
        \o (IF format = "single" THEN "Create ONE compelling tweet."
            ELSE "Create a tweet thread with " \o ToString(maxTweets) \o " tweets maximum.")
        \o "\n\nBase your tweets on the provided transcript content."
        \o "\n\nRemember: Character count is critical."]

\* generateTweetContext(transcript, prompt, options): undefined options take
\* their defaults
GenerateTweetContext(transcript, prompt, options) ==
    LET maxTweets == IF options.maxTweets.t = "undefined" THEN DefaultMaxTweets
                     ELSE options.maxTweets.n
        style == IF options.style.t = "undefined" THEN "engaging" ELSE options.style.s
        format == IF options.format.t = "undefined" THEN "thread" ELSE options.format.s
        pi == GeneratePromptAndInstructions(format, style, maxTweets, prompt,
                                            options.includeEmojis.b,
                                            options.includeCallToAction.b)
    IN  [transcript |-> CleanTranscript(transcript),
         prompt |-> prompt,
         format |-> format,
         style |-> style,
         maxTweets |-> IF format = "single" THEN 1 ELSE maxTweets,
         includeEmojis |-> options.includeEmojis.b,
         includeCallToAction |-> options.includeCallToAction.b,
         systemPrompt |-> pi.systemPrompt,
         instructions |-> pi.instructions]

(***************************************************************************)
(* The ListTools handler: the advertised catalog.                          *)
(***************************************************************************)
Prop(name, type) ==
    [name |-> name, type |-> type, enum |-> <<>>, ranged |-> FALSE,
     minimum |-> 0, maximum |-> 0]

tools ==
    <<[name |-> "get_youtube_transcript",
       description |-> "Fetch the transcript from a YouTube video using the video URL or ID",
       inputSchema |->
         [type |-> "object",
          properties |-> <<Prop("videoUrl", "string")>>,
          required |-> <<"videoUrl">>]],
      [name |-> "generate_tweets_from_transcript",
       description |-> "Generate engaging tweets from a transcript using intelligent content analysis",
       inputSchema |->
         [type |-> "object",
          properties |->
            <<Prop("transcript", "string"),
              Prop("prompt", "string"),
              [Prop("maxTweets", "number") EXCEPT !.ranged = TRUE, !.minimum = 1, !.maximum = 10],
              [Prop("style", "string") EXCEPT
                  !.enum = <<"conversational", "informative", "engaging", "professional">>],
              [Prop("format", "string") EXCEPT !.enum = <<"thread", "single">>]>>,
          required |-> <<"transcript", "prompt">>]],
      [name |-> "create_typefully_draft",
       description |-> "Create a draft in Typefully for later publishing",
       inputSchema |->
         [type |-> "object",
          properties |->
            <<Prop("content", "string"),
              Prop("threadify", "boolean"),
              Prop("scheduleDate", "string"),
              Prop("share", "boolean")>>,
          required |-> <<"content">>]]>>

\* a catalog that also lists every name a call has asked for
ListToolsResultGrowing ==
    IF last.valid /\ \A k \in 1..Len(tools) : tools[k].name # last.name
    THEN Append(tools, [tools[1] EXCEPT !.name = last.name])
    ELSE tools

\* what the ListTools handler resolves to
ListToolsResult == tools

(***************************************************************************)
(* The CallTool handler.  A call runs to its first await (Begin), is       *)
(* resumed when axios settles (Resume), and whatever its try block ends    *)
(* with passes through the outer catch.                                    *)
(***************************************************************************)
ErrorPrefix == "X Error: "
InnerErrorPrefix == "X **Error:** "

NoLocals == [videoId |-> "", threadify |-> Undefined]
NoRequest == [method |-> "", url |-> "", body |-> <<>>, apiKey |-> ""]

Settled(trace, completion) ==
    [step |-> "settled", trace |-> trace, completion |-> completion,
     locals |-> NoLocals, request |-> NoRequest]
Await(trace, locals, request) ==
    [step |-> "await", trace |-> trace, completion |-> Return(TextResult("")),
     locals |-> locals, request |-> request]

\* case "get_youtube_transcript", to its await
TranscriptBegin(args, svc) ==
    LET p == Parse(YouTubeTranscriptSchema, args)
    IN  IF ~p.ok THEN Settled(<<"parse">>, Throw(p.error))
        ELSE LET id == ExtractVideoId(p.data.videoUrl.s)
             IN  IF id.type = "throw"
                 THEN Settled(<<"parse", "extractVideoId">>, Throw(id.error))
                 ELSE Await(<<"parse", "extractVideoId", "getTranscript">>,
                            [NoLocals EXCEPT !.videoId = id.value],
                            TranscriptRequest(id.value, svc))

\* case "get_youtube_transcript", from its await
TranscriptResume(locals, out) ==
    LET t == GetTranscriptSettle(out)
    IN  IF t.type = "throw" THEN Throw(t.error)
        ELSE IF ~t.value.defined
        THEN Throw(NewError("Cannot read properties of undefined (reading 'content')"))
        ELSE Return(TextResult(
                "**YouTube Transcript Fetched Successfully!**\n\n"
                \o "**Video ID:** " \o locals.videoId \o "\n"
                \o "**Language:** " \o t.value.lang \o "\n"
                \o "**Total Segments:** " \o ToString(Len(t.value.content)) \o "\n\n"
                \o "**Full Transcript:**\n\n"
                \o TranscriptToText(t.value) \o "\n\n"
                \o "**Ready to generate content!**"))

\* case "generate_tweets_from_transcript"
GenerateTweets(args) ==
    LET p == Parse(GenerateTweetsSchema, args)
    IN  IF ~p.ok THEN Settled(<<"parse">>, Throw(p.error))
        ELSE LET format == Get(p.data, "format")
                 context == GenerateTweetContext(
                                p.data.transcript.s, p.data.prompt.s,
                                [maxTweets |-> Get(p.data, "maxTweets"),
                                 style |-> Get(p.data, "style"),
                                 format |-> format,
                                 includeCallToAction |-> Bool(TRUE),
                                 includeEmojis |-> Bool(TRUE)])
                 formatDescription ==
                     IF format.t = "string" /\ format.s = "single"
                     THEN "Single Tweet (280 chars max)" ELSE "Tweet Thread"
             IN  Settled(<<"parse", "generateTweetContext">>,
                    Return(TextResult(
                        "**Tweet Generation Context Prepared**\n\n"
                        \o "**User Prompt:** " \o p.data.prompt.s \o "\n"
                        \o "**Style:** " \o context.style \o "\n"
                        \o "**Format:** " \o formatDescription \o "\n"
                        \o "**Max Tweets:** "
                        \o (IF context.maxTweets # 0 THEN ToString(context.maxTweets)
                            ELSE "auto-determined") \o "\n\n"
                        \o "**System Instructions:**\n" \o context.systemPrompt \o "\n\n"
                        \o "**Generation Guidelines:**\n" \o context.instructions \o "\n\n"
                        \o "**Please create the " \o ToLowerCase(formatDescription)
                        \o " based on this context!**")))

\* case "create_typefully_draft", to its await
DraftBegin(args, svc) ==
    LET p == Parse(CreateDraftSchema, args)
    IN  IF ~p.ok THEN Settled(<<"parse">>, Throw(p.error))
        ELSE Await(<<"parse", "createDraft">>,
                   [NoLocals EXCEPT !.threadify = Get(p.data, "threadify")],
                   DraftRequest(p.data.content,
                                [threadify |-> Get(p.data, "threadify"),
                                 scheduleDate |-> Get(p.data, "scheduleDate"),
                                 share |-> Get(p.data, "share")],
                                svc))

\* new Date(created_at).toLocaleString()
ToLocaleString(created_at) ==
    IF created_at = "2026-01-01T00:00:00Z" THEN "1/1/2026, 12:00:00 AM"
    ELSE "Invalid Date"

\* the inner catch of case "create_typefully_draft"
DraftCatch(error) ==
    Return(TextResult(InnerErrorPrefix
                      \o (IF error.isError THEN error.message ELSE "Unknown error")))

\* case "create_typefully_draft", from its await: the inner try and catch
DraftResume(locals, out) ==
    LET d == CreateDraftSettle(out)
    IN  IF d.type = "throw" THEN DraftCatch(d.error)
        ELSE IF ~d.value.defined
        THEN DraftCatch(NewError("Cannot read properties of undefined (reading 'id')"))
        ELSE Return(TextResult(
                "**Typefully Draft Created!**\n\n"
                \o "**Draft ID:** " \o d.value.id \o "\n"
                \o "**Created:** " \o ToLocaleString(d.value.created_at) \o "\n"
                \o "**Status:** " \o d.value.status \o "\n"
                \o "**Threadified:** "
                \o (IF locals.threadify.t = "boolean" /\ locals.threadify.b THEN "Yes" ELSE "No")
                \o "\n"
                \o "**Share URL:** "
                \o (IF d.value.share_url # "" THEN d.value.share_url ELSE "Not shared")
                \o "\n"))

\* an outer catch that handles only Error instances and rethrows the rest
OuterCatchErrorsOnly(completion) ==
    IF completion.type = "throw" /\ completion.error.isError
    THEN Return(ErrorResult(ErrorPrefix \o Trim(ReplaceCtl(completion.error.message))))
    ELSE completion

\* the outer try/catch: a throw becomes the isError result
OuterCatch(completion) ==
    IF completion.type = "throw"
    THEN Return(ErrorResult(
            ErrorPrefix
            \o (IF completion.error.isError
                THEN Trim(ReplaceCtl(completion.error.message))
                ELSE "Unknown error occurred")))
    ELSE completion

\* a switch that compares the names without regard to case
BeginIgnoringCase(name, args, yt, tf) ==
    IF ToLowerCase(name) = "get_youtube_transcript" THEN TranscriptBegin(args, yt)
    ELSE IF ToLowerCase(name) = "generate_tweets_from_transcript" THEN GenerateTweets(args)
    ELSE IF ToLowerCase(name) = "create_typefully_draft" THEN DraftBegin(args, tf)
    ELSE Settled(<<>>, Throw(NewError("Unknown tool: " \o name)))

\* the switch on the tool name, to the first await of the selected case
Begin(name, args, yt, tf) ==
    IF name = "get_youtube_transcript" THEN TranscriptBegin(args, yt)
    ELSE IF name = "generate_tweets_from_transcript" THEN GenerateTweets(args)
    ELSE IF name = "create_typefully_draft" THEN DraftBegin(args, tf)
    ELSE Settled(<<>>, Throw(NewError("Unknown tool: " \o name)))

\* the continuation of the case that awaits
Resume(name, locals, out) ==
    IF name = "get_youtube_transcript" THEN TranscriptResume(locals, out)
    ELSE DraftResume(locals, out)

\* the promise the handler returns, from the completion of its body
Promise(completion) ==
    IF completion.type = "return"
    THEN [status |-> "fulfilled", value |-> completion.value, reason |-> NoError]
    ELSE [status |-> "rejected", value |-> TextResult(""), reason |-> completion.error]

(***************************************************************************)
(* Inputs: the requests a client sends and the ways axios settles.         *)
(***************************************************************************)
Requests ==
    <<\* get_youtube_transcript
      [name |-> "get_youtube_transcript",
       args |-> [videoUrl |-> Str("https://youtu.be/abc12345678")]],
      [name |-> "get_youtube_transcript",
       args |-> [videoUrl |-> Str("https://youtu.be/abc12345678"), verbose |-> Bool(TRUE)]],
      [name |-> "get_youtube_transcript",
       args |-> [videoUrl |-> Str("https://www.youtube.com/watch?v=dQw4w9WgXcQ&t=1s")]],
      [name |-> "get_youtube_transcript", args |-> [videoUrl |-> Str("not a video")]],
      [name |-> "get_youtube_transcript", args |-> [videoUrl |-> Str("")]],
      [name |-> "get_youtube_transcript", args |-> [videoUrl |-> Num(7)]],
      [name |-> "get_youtube_transcript", args |-> <<>>],
      [name |-> "get_youtube_transcript", args |-> [verbose |-> Bool(TRUE)]],
      \* generate_tweets_from_transcript
      [name |-> "generate_tweets_from_transcript",
       args |-> [transcript |-> Str("t"), prompt |-> Str("p")]],
      [name |-> "generate_tweets_from_transcript",
       args |-> [transcript |-> Str("t"), prompt |-> Str("p"), lang |-> Str("en")]],
      [name |-> "generate_tweets_from_transcript",
       args |-> [transcript |-> Str("t"), prompt |-> Str("p"), maxTweets |-> Num(15)]],
      [name |-> "generate_tweets_from_transcript",
       args |-> [transcript |-> Str("t"), prompt |-> Str("p"), maxTweets |-> Num(0)]],
      [name |-> "generate_tweets_from_transcript",
       args |-> [transcript |-> Str("t"), prompt |-> Str("p"), maxTweets |-> Num(10),
                 style |-> Str("professional"), format |-> Str("single")]],
      [name |-> "generate_tweets_from_transcript",
       args |-> [transcript |-> Str("t"), prompt |-> Str("p"), maxTweets |-> Str("3")]],
      [name |-> "generate_tweets_from_transcript",
       args |-> [transcript |-> Str("t"), prompt |-> Str("p"), style |-> Str("funny")]],
      [name |-> "generate_tweets_from_transcript",
       args |-> [transcript |-> Str("t"), prompt |-> Str("p"), format |-> Str("essay")]],
      [name |-> "generate_tweets_from_transcript", args |-> [transcript |-> Str("t")]],
      \* create_typefully_draft
      [name |-> "create_typefully_draft", args |-> [content |-> Str("hello")]],
      [name |-> "create_typefully_draft",
       args |-> [content |-> Str("hello"), threadify |-> Bool(TRUE),
                 scheduleDate |-> Str("next-free-slot"), share |-> Bool(FALSE)]],
      [name |-> "create_typefully_draft",
       args |-> [content |-> Str("hello"), threadify |-> Bool(TRUE),
                 scheduleDate |-> Str("next-free-slot"), share |-> Bool(FALSE),
                 tags |-> Null]],
      [name |-> "create_typefully_draft", args |-> [content |-> Num(1)]],
      [name |-> "create_typefully_draft",
       args |-> [content |-> Str("hello"), share |-> Str("yes")]],
      [name |-> "create_typefully_draft", args |-> [threadify |-> Bool(TRUE)]],
      \* names the switch does not list
      [name |-> "nonexistent_tool", args |-> <<>>],
      [name |-> "Get_YouTube_Transcript",
       args |-> [videoUrl |-> Str("https://youtu.be/abc12345678")]],
      [name |-> "create_typefully_draft ", args |-> [content |-> Str("hello")]],
      [name |-> "", args |-> <<>>],
      [name |-> "a\tb", args |-> <<>>],
      [name |-> "tool\n", args |-> <<>>]>>

\* get_youtube_transcript requests over the shapes of videoUrl
UrlRequests ==
    <<[name |-> "get_youtube_transcript",
       args |-> [videoUrl |-> Str("https://www.youtube.com/watch?v=dQw4w9WgXcQ")]],
      [name |-> "get_youtube_transcript",
       args |-> [videoUrl |-> Str("https://youtu.be/dQw4w9WgXcQ?t=5")]],
      [name |-> "get_youtube_transcript",
       args |-> [videoUrl |-> Str("https://www.youtube.com/embed/dQw4w9WgXcQ")]],
      [name |-> "get_youtube_transcript", args |-> [videoUrl |-> Str("dQw4w9WgXcQ")]],
      [name |-> "get_youtube_transcript", args |-> [videoUrl |-> Str("dQw4w9WgXc")]],
      [name |-> "get_youtube_transcript", args |-> [videoUrl |-> Str("dQw4w9WgXcQ!")]],
      [name |-> "get_youtube_transcript", args |-> [videoUrl |-> Str(" dQw4w9WgXcQ")]],
      [name |-> "get_youtube_transcript", args |-> [videoUrl |-> Str("not a video")]],
      [name |-> "get_youtube_transcript", args |-> [videoUrl |-> Str("https://youtu.be/")]],
      [name |-> "get_youtube_transcript",
       args |-> [videoUrl |-> Str("https://vimeo.com/12345678901")]],
      [name |-> "get_youtube_transcript", args |-> [videoUrl |-> Str("see youtu.be/x")]],
      [name |-> "get_youtube_transcript", args |-> [videoUrl |-> Str("")]]>>

TranscriptOutcomes ==
    <<Ok([defined |-> TRUE, lang |-> "en", content |-> <<"hello", "world\n">>]),
      Ok(Malformed),
      AxiosError("404", "Video\nnot found", "Request failed with status code 404"),
      AxiosError("undefined", "", "connect ECONNREFUSED\t127.0.0.1"),
      OtherError("boom\r\n"),
      NonError>>

DraftOutcomes ==
    <<Ok([defined |-> TRUE, id |-> "42", created_at |-> "2026-01-01T00:00:00Z",
          status |-> "draft", share_url |-> ""]),
      Ok(Malformed),
      AxiosError("401", "Invalid\nAPI key", "Request failed with status code 401"),
      AxiosError("undefined", "", "connect ECONNREFUSED\t127.0.0.1"),
      OtherError("boom\r\n"),
      NonError>>

OutcomesOf(name) ==
    IF name = "get_youtube_transcript" THEN TranscriptOutcomes ELSE DraftOutcomes

NoOutcome == [kind |-> "none", data |-> Malformed, status |-> "", dataMsg |-> "", message |-> ""]

EnvKeys == {"SUPADATA_API_KEY", "TYPEFULLY_API_KEY"}
Environments == [EnvKeys -> {"", "key"}]

(***************************************************************************)
(* State.                                                                  *)
(***************************************************************************)
\* req and outIdx are the places of a call's request and of axios's outcome in
\* Requests and OutcomesOf (0 when there is none)
Idle == [pc |-> "idle", req |-> 0, name |-> "", args |-> <<>>, trace |-> <<>>,
         locals |-> NoLocals, request |-> NoRequest]

NoCall == [valid |-> FALSE, req |-> 0, outIdx |-> 0,
           name |-> "", args |-> <<>>, out |-> NoOutcome,
           trace |-> <<>>, request |-> NoRequest, promise |-> Promise(Return(TextResult("")))]

Unconstructed == [constructed |-> FALSE, apiKey |-> "", baseUrl |-> "", warned |-> FALSE]

\* standard output: whether unstructured text has reached it, and what
\* became of the protocol frames written to it
NoOutput == [text |-> FALSE, frames |-> "none"]

\* how dotenv.config ended; NoTry outside the try statement
NoTry == [ran |-> FALSE, logs |-> FALSE, throws |-> FALSE]

Init ==
    /\ env \in Environments
    /\ proc = "start"
    /\ stdoutWrite = "original"
    /\ stdout = NoOutput
    /\ tryResult = NoTry
    /\ exitCode = 0
    /\ exitCause = ""
    /\ youtubeService = Unconstructed
    /\ typeFullyService = Unconstructed
    /\ calls = [c \in CallIds |-> Idle]
    /\ last = NoCall
    /\ firstList = <<>>
    /\ lastList = <<>>

(***************************************************************************)
(* Start-up: the module's top-level statements, then main().               *)
(***************************************************************************)
\* process.stdout.write(chunk) with writer in place: the replacement
\* `() => true` discards the chunk, the original writer emits it
Write(writer, out, kind) ==
    IF kind = "text"
    THEN (IF writer = "suppressed" THEN out ELSE [out EXCEPT !.text = TRUE])
    ELSE [out EXCEPT !.frames = IF writer = "suppressed" THEN "lost" ELSE "written"]

\* console.warn(message): written to standard error, never to standard output
ConsoleWarn(writer, out) == out

\* const originalWrite = process.stdout.write; process.stdout.write = () => true
SuppressStdout ==
    /\ proc = "start"
    /\ stdoutWrite' = "suppressed"
    /\ proc' = "load"
    /\ UNCHANGED <<env, exitCode, exitCause, youtubeService, typeFullyService,
                   calls, last, firstList, lastList, stdout, tryResult>>

\* a restore written as the last statement of the try block
WriterRestoredInTry(threw) == IF threw THEN "suppressed" ELSE "original"

\* process.stdout.write once the try statement has ended: the finally block
\* restores the original writer on every path
WriterAfterTry(threw) == "original"

\* the try statement: dotenv.config sets the variables of the .env file that
\* the environment does not already set (none when it throws), may log to
\* standard output and may throw; the catch ignores the error and the finally
\* restores the writer
LoadEnv ==
    /\ proc = "load"
    /\ \E file \in Environments, logs \in BOOLEAN, throws \in BOOLEAN :
          /\ env' = IF throws THEN env
                    ELSE [k \in EnvKeys |-> IF env[k] # "" THEN env[k] ELSE file[k]]
          /\ stdout' = IF logs THEN Write(stdoutWrite, stdout, "text") ELSE stdout
          /\ tryResult' = [ran |-> TRUE, logs |-> logs, throws |-> throws]
          /\ stdoutWrite' = WriterAfterTry(throws)
    /\ proc' = "init"
    /\ UNCHANGED <<exitCode, exitCause, youtubeService, typeFullyService,
                   calls, last, firstList, lastList>>

\* new YouTubeService(): a missing key is only warned about
NewYouTubeService(key) ==
    [constructed |-> TRUE, apiKey |-> key,
     baseUrl |-> "https://api.supadata.ai/v1/youtube", warned |-> (key = "")]

\* new TypefullyService(): a missing key throws
NewTypefullyService(key) ==
    IF key = ""
    THEN Throw(NewError("TYPEFULLY_API_KEY environment variable is required"))
    ELSE Return([constructed |-> TRUE, apiKey |-> key,
                 baseUrl |-> "https://api.typefully.com/v1", warned |-> FALSE])

\* the service singletons; an exception thrown while the module loads is
\* uncaught and ends the process with status 1
InitServices ==
    /\ proc = "init"
    /\ youtubeService' = NewYouTubeService(env["SUPADATA_API_KEY"])
    /\ stdout' = IF youtubeService'.warned THEN ConsoleWarn(stdoutWrite, stdout) ELSE stdout
    /\ tryResult' = NoTry
    /\ UNCHANGED stdoutWrite
    /\ LET tf == NewTypefullyService(env["TYPEFULLY_API_KEY"])
       IN  IF tf.type = "throw"
           THEN /\ proc' = "exited"
                /\ exitCode' = 1
                /\ exitCause' = "uncaught exception"
                /\ UNCHANGED typeFullyService
           ELSE /\ typeFullyService' = tf.value
                /\ proc' = "connect"
                /\ UNCHANGED <<exitCode, exitCause>>
    /\ UNCHANGED <<env, calls, last, firstList, lastList>>

\* main(): server.connect(transport) resolves
ConnectOk ==
    /\ proc = "connect"
    /\ proc' = "running"
    /\ UNCHANGED <<env, exitCode, exitCause, youtubeService, typeFullyService,
                   calls, last, firstList, lastList, stdoutWrite, stdout, tryResult>>

\* main(): server.connect(transport) rejects; the catch calls process.exit(1)
ConnectFail ==
    /\ proc = "connect"
    /\ proc' = "exited"
    /\ exitCode' = 1
    /\ exitCause' = "transport"
    /\ UNCHANGED <<env, youtubeService, typeFullyService, calls, last, firstList, lastList,
                   stdoutWrite, stdout, tryResult>>

(***************************************************************************)
(* Requests.                                                               *)
(***************************************************************************)
\* a discovery call
ListTools ==
    /\ proc = "running"
    /\ lastList' = ListToolsResult
    /\ firstList' = IF firstList = <<>> THEN ListToolsResult ELSE firstList
    /\ stdout' = Write(stdoutWrite, stdout, "frame")
    /\ UNCHANGED <<env, proc, exitCode, exitCause, youtubeService, typeFullyService,
                   calls, last, stdoutWrite, tryResult>>

(***************************************************************************)
(* Begin, Resume and the outer catch are functions of the request, the     *)
(* keys the services hold and the way axios settles.  The tables below     *)
(* hold their values, so that TLC evaluates each once and not at every     *)
(* state.                                                                  *)
(***************************************************************************)
KeyValues == {"", "key"}

BeginMemo ==
    [yk \in KeyValues |-> [tk \in KeyValues \ {""} |-> [i \in 1..Len(Requests) |->
        Begin(Requests[i].name, Requests[i].args,
              NewYouTubeService(yk), NewTypefullyService(tk).value)]]]

\* the promise of a call that ends without awaiting
SettledMemo ==
    [yk \in KeyValues |-> [tk \in KeyValues \ {""} |-> [i \in 1..Len(Requests) |->
        Promise(OuterCatch(BeginMemo[yk][tk][i].completion))]]]

UrlBeginMemo ==
    [yk \in KeyValues |-> [tk \in KeyValues \ {""} |-> [i \in 1..Len(UrlRequests) |->
        Begin(UrlRequests[i].name, UrlRequests[i].args,
              NewYouTubeService(yk), NewTypefullyService(tk).value)]]]

UrlSettledMemo ==
    [yk \in KeyValues |-> [tk \in KeyValues \ {""} |-> [i \in 1..Len(UrlRequests) |->
        Promise(OuterCatch(UrlBeginMemo[yk][tk][i].completion))]]]

AllLocals ==
    {BeginMemo[yk][tk][i].locals :
        yk \in KeyValues, tk \in KeyValues \ {""}, i \in 1..Len(Requests)}
    \cup {UrlBeginMemo[yk][tk][i].locals :
        yk \in KeyValues, tk \in KeyValues \ {""}, i \in 1..Len(UrlRequests)}

AwaitingNames == {"get_youtube_transcript", "create_typefully_draft"}

HandlerMemo ==
    [n \in AwaitingNames |-> [l \in AllLocals |-> [j \in 1..Len(OutcomesOf(n)) |->
        Promise(OuterCatch(Resume(n, l, OutcomesOf(n)[j])))]]]

\* an invocation call: the handler runs to its first await, or to its end
StartCall(c, i) ==
    /\ proc = "running"
    /\ calls[c].pc = "idle"
    /\ LET req == Requests[i]
           b == BeginMemo[youtubeService.apiKey][typeFullyService.apiKey][i]
       IN  IF b.step = "await"
           THEN /\ calls' = [calls EXCEPT ![c] =
                               [pc |-> "await", req |-> i,
                                name |-> req.name, args |-> req.args,
                                trace |-> b.trace, locals |-> b.locals,
                                request |-> b.request]]
                /\ UNCHANGED <<last, stdout>>
           ELSE /\ last' = [valid |-> TRUE, req |-> i, outIdx |-> 0,
                            name |-> req.name, args |-> req.args,
                            out |-> NoOutcome, trace |-> b.trace, request |-> NoRequest,
                            promise |->
                              SettledMemo[youtubeService.apiKey][typeFullyService.apiKey][i]]
                /\ stdout' = Write(stdoutWrite, stdout, "frame")
                /\ UNCHANGED calls
    /\ UNCHANGED <<env, proc, exitCode, exitCause, youtubeService, typeFullyService,
                   firstList, lastList, stdoutWrite, tryResult>>

\* an invocation call of get_youtube_transcript with a videoUrl of UrlRequests
StartUrlCall(c, i) ==
    /\ proc = "running"
    /\ calls[c].pc = "idle"
    /\ LET req == UrlRequests[i]
           b == UrlBeginMemo[youtubeService.apiKey][typeFullyService.apiKey][i]
       IN  IF b.step = "await"
           THEN /\ calls' = [calls EXCEPT ![c] =
                               [pc |-> "await", req |-> i,
                                name |-> req.name, args |-> req.args,
                                trace |-> b.trace, locals |-> b.locals,
                                request |-> b.request]]
                /\ UNCHANGED <<last, stdout>>
           ELSE /\ last' = [valid |-> TRUE, req |-> i, outIdx |-> 0,
                            name |-> req.name, args |-> req.args,
                            out |-> NoOutcome, trace |-> b.trace, request |-> NoRequest,
                            promise |->
                              UrlSettledMemo[youtubeService.apiKey][typeFullyService.apiKey][i]]
                /\ stdout' = Write(stdoutWrite, stdout, "frame")
                /\ UNCHANGED calls
    /\ UNCHANGED <<env, proc, exitCode, exitCause, youtubeService, typeFullyService,
                   firstList, lastList, stdoutWrite, tryResult>>

\* the variables of the case block that the continuation of call c closes over
LocalsOfSharedSlot(c) ==
    LET inflight == {d \in CallIds : calls[d].pc = "await"}
    IN  calls[CHOOSE d \in inflight : \A e \in inflight : d >= e].locals

LocalsOf(c) == calls[c].locals

\* axios settles the request of call c in way j: the handler resumes and ends
Respond(c, j) ==
    /\ proc = "running"
    /\ calls[c].pc = "await"
    /\ last' = [valid |-> TRUE, req |-> calls[c].req, outIdx |-> j,
                name |-> calls[c].name, args |-> calls[c].args,
                out |-> OutcomesOf(calls[c].name)[j], trace |-> calls[c].trace,
                request |-> calls[c].request,
                promise |-> HandlerMemo[calls[c].name][LocalsOf(c)][j]]
    /\ calls' = [calls EXCEPT ![c] = Idle]
    /\ stdout' = Write(stdoutWrite, stdout, "frame")
    /\ UNCHANGED <<env, proc, exitCode, exitCause, youtubeService, typeFullyService,
                   firstList, lastList, stdoutWrite, tryResult>>

Next ==
    \/ SuppressStdout
    \/ LoadEnv
    \/ InitServices
    \/ ConnectOk
    \/ ConnectFail
    \/ ListTools
    \/ \E c \in CallIds : \E i \in 1..Len(Requests) : StartCall(c, i)
    \/ \E c \in CallIds : \E j \in 1..Len(OutcomesOf(calls[c].name)) : Respond(c, j)

Spec == Init /\ [][Next]_vars

\* the server under a client that calls get_youtube_transcript only
NextUrl ==
    \/ SuppressStdout
    \/ LoadEnv
    \/ InitServices
    \/ ConnectOk
    \/ ConnectFail
    \/ ListTools
    \/ \E c \in CallIds : \E i \in 1..Len(UrlRequests) : StartUrlCall(c, i)
    \/ \E c \in CallIds : \E j \in 1..Len(OutcomesOf(calls[c].name)) : Respond(c, j)

SpecUrl == Init /\ [][NextUrl]_vars

(***************************************************************************)
(* The properties checked.  `last` is the call that ended most recently;   *)
(* every call passes through it when it ends, so an invariant over `last`  *)
(* speaks of every call of every run.                                      *)
(***************************************************************************)
Registered ==
    {"get_youtube_transcript", "generate_tweets_from_transcript", "create_typefully_draft"}

\* the fields each tool declares, as the specification lists them
DeclaredFields(name) ==
    IF name = "get_youtube_transcript" THEN {"videoUrl"}
    ELSE IF name = "generate_tweets_from_transcript"
    THEN {"transcript", "prompt", "maxTweets", "style", "format"}
    ELSE {"content", "threadify", "scheduleDate", "share"}

AbsentOr(v, ok) == v.t = "undefined" \/ ok

\* args satisfy the declared schema of the registered tool `name`: required
\* fields present, primitive types, the range of maxTweets, the enum sets
SatisfiesSchema(name, args) ==
    IF name = "get_youtube_transcript" THEN Get(args, "videoUrl").t = "string"
    ELSE IF name = "generate_tweets_from_transcript"
    THEN /\ Get(args, "transcript").t = "string"
         /\ Get(args, "prompt").t = "string"
         /\ LET m == Get(args, "maxTweets")
            IN  AbsentOr(m, m.t = "number" /\ m.n >= 1 /\ m.n <= 10)
         /\ LET y == Get(args, "style")
            IN  AbsentOr(y, y.t = "string" /\ y.s \in {"conversational", "informative",
                                                      "engaging", "professional"})
         /\ LET f == Get(args, "format")
            IN  AbsentOr(f, f.t = "string" /\ f.s \in {"thread", "single"})
    ELSE /\ Get(args, "content").t = "string"
         /\ LET v == Get(args, "threadify") IN AbsentOr(v, v.t = "boolean")
         /\ LET v == Get(args, "scheduleDate") IN AbsentOr(v, v.t = "string")
         /\ LET v == Get(args, "share") IN AbsentOr(v, v.t = "boolean")

Collaborators == {"extractVideoId", "getTranscript", "generateTweetContext", "createDraft"}

Invoked(trace) == \E k \in 1..Len(trace) : trace[k] \in Collaborators

Fulfilled == last.promise.status = "fulfilled"
LastResult == last.promise.value
OneTextBlock(r) == Len(r.content) = 1 /\ r.content[1].type = "text"
LastText == LastResult.content[1].text

\* the collaborator of the last call raised a fault
CollaboratorFault ==
    \/ last.out.kind \in {"axiosError", "error", "nonError"}
    \/ /\ last.name = "get_youtube_transcript"
       /\ Len(last.trace) = 2
       /\ last.trace[2] = "extractVideoId"

\* the message of the fault axios raised in the last call
FaultMessage == IF last.out.dataMsg # "" THEN last.out.dataMsg ELSE last.out.message

\* the collaborator of the last call was invoked and succeeded
CollaboratorSucceeded ==
    \/ last.out.kind = "ok" /\ last.out.data.defined
    \/ last.name = "generate_tweets_from_transcript" /\ Invoked(last.trace)

\* C1: for every registered tool name, every argument mapping that satisfies
\* the tool's schema and every collaborator outcome (success, a raised Error,
\* a raised non-Error value), callTool does not raise: its promise is
\* fulfilled with a ToolResult whose content is exactly one text block.
C1_NeverRaises ==
    (last.valid /\ last.name \in Registered /\ SatisfiesSchema(last.name, last.args))
        => (Fulfilled /\ OneTextBlock(LastResult))

\* a call with schema-satisfying arguments whose collaborator raised a value
\* that is not an Error has resolved
C1_Witness ==
    /\ last.valid /\ last.name \in Registered
    /\ SatisfiesSchema(last.name, last.args)
    /\ last.out.kind = "nonError"
    /\ Fulfilled

\* C2: for each of the three tools, whenever the handler collaborator raises
\* a fault, the ToolResult that callTool returns has isError set to true.
C2_FaultSetsIsError ==
    (last.valid /\ last.name \in Registered /\ CollaboratorFault)
        => (Fulfilled /\ IsErrorSet(LastResult))

\* a get_youtube_transcript call whose collaborator raised is flagged
C2_Witness ==
    /\ last.valid /\ last.name = "get_youtube_transcript"
    /\ last.out.kind = "axiosError"
    /\ Fulfilled /\ IsErrorSet(LastResult)

\* C3: when the handler collaborator raises a fault whose message contains a
\* carriage return, line feed or tab, the text of the returned ToolResult
\* contains none of these characters.
C3_FaultTextHasNoControlChars ==
    (last.valid /\ last.name \in Registered
     /\ last.out.kind \in {"axiosError", "error"} /\ HasCtl(FaultMessage))
        => (Fulfilled /\ ~HasCtl(LastText))

\* a get_youtube_transcript call whose fault message held a line feed has a
\* text without control characters
C3_Witness ==
    /\ last.valid /\ last.name = "get_youtube_transcript"
    /\ last.out.kind = "axiosError" /\ HasCtl(FaultMessage)
    /\ Fulfilled /\ ~HasCtl(LastText)

\* C4: in every callTool execution of a registered tool, validation is the
\* first step and precedes every collaborator invocation; when the arguments
\* violate the tool's schema the call returns a ToolResult with isError true
\* and no collaborator is invoked (no call with such arguments is ever
\* suspended in a collaborator).
C4_ValidationBeforeHandler ==
    /\ (last.valid /\ last.name \in Registered)
         => /\ last.trace # <<>> /\ last.trace[1] = "parse"
            /\ ~SatisfiesSchema(last.name, last.args)
                 => /\ Fulfilled /\ IsErrorSet(LastResult)
                    /\ ~Invoked(last.trace)
                    /\ last.request = NoRequest
    /\ \A c \in CallIds :
         calls[c].pc = "await"
           => /\ calls[c].trace[1] = "parse"
              /\ SatisfiesSchema(calls[c].name, calls[c].args)

\* generate_tweets_from_transcript with maxTweets 15 has ended flagged, its
\* collaborator not invoked
C4_Witness ==
    /\ last.valid /\ last.name = "generate_tweets_from_transcript"
    /\ Get(last.args, "maxTweets") = Num(15)
    /\ IsErrorSet(LastResult) /\ ~Invoked(last.trace)

\* C5 as stated: for every name that is not exactly one of the three
\* registered names, callTool returns a ToolResult with isError true and one
\* text block containing "Unknown tool: <name>", without validating
\* arguments, invoking a collaborator, or raising.
C5_UnknownToolEchoesName ==
    (last.valid /\ last.name \notin Registered)
        => /\ Fulfilled /\ IsErrorSet(LastResult) /\ OneTextBlock(LastResult)
           /\ Contains(LastText, "Unknown tool: " \o last.name)
           /\ last.trace = <<>>

\* the name as the sanitised message shows it
EndsInSpace(s) == s # "" /\ IsSpace(CharAt(s, Len(s)))

\* C5 as amended: for every such name the ToolResult has isError true and
\* one text block, nothing is validated or invoked (no such call is ever
\* suspended in a collaborator) and nothing is raised;
\* the text is "Unknown tool: <name>" with every CR, LF and TAB replaced by a
\* space and the whitespace at its ends removed, so it contains
\* "Unknown tool: <name>" verbatim when the name is not empty, holds no CR,
\* LF or TAB and does not end in whitespace.
C5_UnknownToolSanitised ==
    /\ (last.valid /\ last.name \notin Registered)
         => /\ Fulfilled /\ IsErrorSet(LastResult) /\ OneTextBlock(LastResult)
            /\ last.trace = <<>> /\ last.request = NoRequest
            /\ Contains(LastText, Trim(ReplaceCtl("Unknown tool: " \o last.name)))
            /\ (last.name # "" /\ ~HasCtl(last.name) /\ ~EndsInSpace(last.name))
                 => Contains(LastText, "Unknown tool: " \o last.name)
    /\ \A c \in CallIds : calls[c].pc = "await" => calls[c].name \in Registered

\* a call of a name that differs from a registered one only in case
C5_Witness ==
    /\ last.valid /\ last.name = "Get_YouTube_Transcript"
    /\ IsErrorSet(LastResult)
    /\ Contains(LastText, "Unknown tool: Get_YouTube_Transcript")

\* C6: the process ends with a non-zero status only if the transport
\* connection cannot be established at start-up.
C6_ExitOnlyOnTransportFailure ==
    (proc = "exited" /\ exitCode # 0) => exitCause = "transport"

\* the process has ended with a non-zero status because connect failed
C6_Witness == proc = "exited" /\ exitCode # 0 /\ exitCause = "transport"

\* the names of a catalog, in order
NamesOf(catalog) == [k \in 1..Len(catalog) |-> catalog[k].name]

\* C7: after any sequence of discovery and invocation calls, a discovery call
\* returns exactly the descriptors get_youtube_transcript,
\* generate_tweets_from_transcript, create_typefully_draft, in that order,
\* and it equals the catalog the first discovery call returned.
C7_CatalogStable ==
    lastList # <<>>
        => /\ NamesOf(lastList) = <<"get_youtube_transcript",
                                    "generate_tweets_from_transcript",
                                    "create_typefully_draft">>
           /\ lastList = firstList

\* the catalog has been listed, a call of an unknown name has ended and
\* another call is in flight
C7_Witness ==
    /\ lastList # <<>>
    /\ last.valid /\ last.name \notin Registered
    /\ \E c \in CallIds : calls[c].pc = "await"

\* C8: when the arguments are valid and the handler collaborator succeeds,
\* callTool returns a ToolResult that is not flagged as an error, with one
\* text block carrying the summary: the video id and the full text for
\* get_youtube_transcript (for videoUrl "https://youtu.be/abc12345678" and a
\* collaborator whose full text is "hello world", the text includes
\* "abc12345678" and "hello world"), the draft's id and status for
\* create_typefully_draft, the prompt and the style for
\* generate_tweets_from_transcript.
C8_SuccessNotFlagged ==
    (last.valid /\ last.name \in Registered /\ CollaboratorSucceeded)
        => /\ Fulfilled /\ ~IsErrorSet(LastResult) /\ OneTextBlock(LastResult)
           /\ (last.name = "get_youtube_transcript"
               /\ last.args.videoUrl = Str("https://youtu.be/abc12345678"))
                => /\ Contains(LastText, "abc12345678")
                   /\ Contains(LastText, "hello world")
           /\ last.name = "create_typefully_draft"
                => /\ Contains(LastText, "Draft ID:** " \o last.out.data.id \o "\n")
                   /\ Contains(LastText, "Status:** " \o last.out.data.status \o "\n")
           /\ last.name = "generate_tweets_from_transcript"
                => /\ Contains(LastText, "User Prompt:** " \o last.args.prompt.s \o "\n")
                   /\ Contains(LastText, "Style:** ")

\* the end-to-end scenario has run
C8_Witness ==
    /\ last.valid /\ last.name = "get_youtube_transcript"
    /\ last.args = [videoUrl |-> Str("https://youtu.be/abc12345678")]
    /\ last.out.kind = "ok" /\ last.out.data.defined
    /\ ~IsErrorSet(LastResult)
    /\ Contains(LastText, "hello world")

\* args without the fields the tool does not declare
Stripped(name, args) == [f \in DOMAIN args \cap DeclaredFields(name) |-> args[f]]

HasExtraFields(name, args) == ~(DOMAIN args \subseteq DeclaredFields(name))

\* the place in Requests of the request (name, args); 0 when it is not there
IndexOf(name, args) ==
    LET at == {i \in 1..Len(Requests) :
                  Requests[i].name = name /\ Requests[i].args = args}
    IN  IF at = {} THEN 0 ELSE CHOOSE i \in at : TRUE

\* what the call of Requests[i] resolves to when axios settles in way j
\* (j = 0: the call does not await), from the handler run on its own
Alone(i, j, yk, tk) ==
    IF j = 0 THEN SettledMemo[yk][tk][i]
    ELSE HandlerMemo[Requests[i].name][BeginMemo[yk][tk][i].locals][j]

\* C9: unknown extra argument fields are ignored: a call whose arguments
\* carry undeclared fields resolves to the ToolResult the same call without
\* them resolves to, and invokes the collaborator with the same request.
C9_ExtraFieldsIgnored ==
    LET yk == youtubeService.apiKey
        tk == typeFullyService.apiKey
    IN  /\ (last.valid /\ last.name \in Registered
            /\ HasExtraFields(last.name, last.args))
              => LET i == IndexOf(last.name, Stripped(last.name, last.args))
                 IN  /\ i # 0
                     /\ last.promise = Alone(i, last.outIdx, yk, tk)
                     /\ last.trace = BeginMemo[yk][tk][i].trace
                     /\ last.request = BeginMemo[yk][tk][i].request
        /\ \A c \in CallIds :
             (calls[c].pc = "await" /\ HasExtraFields(calls[c].name, calls[c].args))
               => LET i == IndexOf(calls[c].name, Stripped(calls[c].name, calls[c].args))
                  IN  /\ i # 0
                      /\ calls[c].request = BeginMemo[yk][tk][i].request
                      /\ calls[c].locals = BeginMemo[yk][tk][i].locals

\* a create_typefully_draft call with an undeclared field has created a draft
C9_Witness ==
    /\ last.valid /\ last.name = "create_typefully_draft"
    /\ "tags" \in DOMAIN last.args
    /\ last.out.kind = "ok" /\ last.out.data.defined
    /\ Contains(LastText, "Draft Created")

\* C10: callTool holds no state across calls: whatever calls are in flight
\* when a call is resumed, its ToolResult is the one the handler produces
\* for its own name, arguments and collaborator response when run alone; the
\* locals of a suspended call are its own; and the service singletons are as
\* start-up built them.
C10_NoCrossCallState ==
    /\ proc = "running"
         => /\ youtubeService = NewYouTubeService(env["SUPADATA_API_KEY"])
            /\ typeFullyService = NewTypefullyService(env["TYPEFULLY_API_KEY"]).value
    /\ last.valid
         => last.promise = Alone(last.req, last.outIdx,
                                 youtubeService.apiKey, typeFullyService.apiKey)
    /\ \A c \in CallIds :
         calls[c].pc = "await"
           => calls[c].locals
                = BeginMemo[youtubeService.apiKey][typeFullyService.apiKey][calls[c].req].locals

\* a call has been resumed while a call with other locals was suspended in a
\* higher slot
C10_Witness ==
    /\ last.valid /\ last.outIdx # 0
    /\ \E c \in CallIds :
         /\ calls[c].pc = "await"
         /\ calls[c].locals
              # BeginMemo[youtubeService.apiKey][typeFullyService.apiKey][last.req].locals
         /\ calls[c].name = last.name

\* C11 as stated: from process start until the transport is connected no
\* unstructured text reaches standard output; writes are suppressed
\* throughout environment loading and collaborator initialization; the
\* original writer is restored afterwards on every path, so that protocol
\* frames are written.
C11_SuppressedThroughInit ==
    /\ ~stdout.text
    /\ proc \in {"load", "init"} => stdoutWrite = "suppressed"
    /\ proc \in {"connect", "running"} => stdoutWrite = "original"
    /\ stdout.frames # "lost"

\* C11 as amended: no unstructured text reaches standard output; writes are
\* suppressed throughout environment loading only; the original writer is
\* back in place when the try statement ends, on every path, and so before
\* the collaborators are initialized (their only output, the warning about a
\* missing SUPADATA_API_KEY, goes to standard error); no protocol frame is
\* lost.
C11_SuppressedWhileLoading ==
    /\ ~stdout.text
    /\ proc = "load" => stdoutWrite = "suppressed"
    /\ proc \in {"init", "connect", "running"} => stdoutWrite = "original"
    /\ stdout.frames # "lost"

\* environment loading has logged and raised, the log was discarded and the
\* original writer is back
C11_Witness ==
    /\ proc = "init"
    /\ tryResult.ran /\ tryResult.logs /\ tryResult.throws
    /\ stdoutWrite = "original"
    /\ ~stdout.text

\* the URL shapes the contract names, with or without scheme and "www."
AcceptedShapes == {"youtube.com/watch?v=", "youtu.be/", "youtube.com/embed/"}
FullUrlHeads ==
    {sc \o h \o sh : sc \in {"https://", "http://", ""}, h \in {"www.", ""},
                     sh \in AcceptedShapes}

StartsWith(str, head) == Len(head) <= Len(str) /\ SubSeq(str, 1, Len(head)) = head

IsIdentifier(str) == Len(str) = 11 /\ \A j \in 1..11 : CharAt(str, j) \in IdChars

\* url is head, an 11-character identifier, and nothing or a query or fragment
IsFullUrlWith(url, head) ==
    /\ StartsWith(url, head)
    /\ Len(url) >= Len(head) + 11
    /\ IsIdentifier(SubSeq(url, Len(head) + 1, Len(head) + 11))
    /\ Len(url) > Len(head) + 11 => CharAt(url, Len(head) + 12) \in {"?", "&", "#"}

IsFullUrl(url) == \E head \in FullUrlHeads : IsFullUrlWith(url, head)

\* the identifier a full URL or a bare identifier names
IdentifierOf(url) ==
    IF IsIdentifier(url) THEN url
    ELSE LET head == CHOOSE h \in FullUrlHeads : IsFullUrlWith(url, h)
         IN  SubSeq(url, Len(head) + 1, Len(head) + 11)

NonEmptyUrl(args) ==
    /\ "videoUrl" \in DOMAIN args
    /\ args.videoUrl.t = "string"
    /\ args.videoUrl.s # ""

\* C12: get_youtube_transcript with a videoUrl that is a full URL of an
\* accepted shape or a bare 11-character identifier fetches the transcript of
\* exactly that identifier; with any other non-empty string the call ends as
\* an isError result carrying "Invalid YouTube URL or video ID", and no
\* transcript fetch is issued, neither by a call that has ended nor by one in
\* flight.
C12_UrlShapes ==
    /\ \A c \in CallIds :
          (/\ calls[c].pc = "await"
           /\ calls[c].name = "get_youtube_transcript"
           /\ NonEmptyUrl(calls[c].args))
          => LET url == calls[c].args.videoUrl.s
             IN  /\ IsIdentifier(url) \/ IsFullUrl(url)
                 /\ calls[c].request.body.videoId = Str(IdentifierOf(url))
    /\ (last.valid /\ last.name = "get_youtube_transcript" /\ NonEmptyUrl(last.args))
          => LET url == last.args.videoUrl.s
             IN  IF IsIdentifier(url) \/ IsFullUrl(url)
                 THEN /\ last.trace = <<"parse", "extractVideoId", "getTranscript">>
                      /\ last.request.body.videoId = Str(IdentifierOf(url))
                 ELSE /\ last.trace = <<"parse", "extractVideoId">>
                      /\ last.request = NoRequest
                      /\ Fulfilled
                      /\ IsErrorSet(LastResult)
                      /\ OneTextBlock(LastResult)
                      /\ LastText = ErrorPrefix \o "Invalid YouTube URL or video ID"

\* a call whose videoUrl is neither a full URL nor an identifier has fetched
\* the transcript of "x" and ended
C12_Witness ==
    /\ last.valid
    /\ last.name = "get_youtube_transcript"
    /\ last.args = [videoUrl |-> Str("see youtu.be/x")]
    /\ last.trace = <<"parse", "extractVideoId", "getTranscript">>
    /\ last.request.body.videoId = Str("x")
    /\ last.out.kind = "ok"
    /\ Fulfilled
    /\ ~IsErrorSet(LastResult)

\* every videoUrl of UrlRequests other than "see youtu.be/x" is fetched by its
\* identifier when it is a full URL or an identifier, and rejected otherwise
OtherUrlsFetchedOrRejected ==
    (last.valid /\ NonEmptyUrl(last.args) /\ last.args.videoUrl.s # "see youtu.be/x")
        => LET url == last.args.videoUrl.s
           IN  IF IsIdentifier(url) \/ IsFullUrl(url)
               THEN /\ last.trace = <<"parse", "extractVideoId", "getTranscript">>
                    /\ last.request.body.videoId = Str(IdentifierOf(url))
               ELSE /\ last.trace = <<"parse", "extractVideoId">>
                    /\ Fulfilled /\ IsErrorSet(LastResult)
                    /\ LastText = ErrorPrefix \o "Invalid YouTube URL or video ID"

\* the inputSchema the discovery call returns for the tool `name`
AdvertisedSchema(name) ==
    LET k == CHOOSE x \in 1..Len(ListToolsResult) : ListToolsResult[x].name = name
    IN  ListToolsResult[k].inputSchema

\* v satisfies one property of an inputSchema: its type, its enum, its range
SatisfiesProperty(p, v) ==
    /\ v.t = p.type
    /\ p.enum # <<>> => \E k \in 1..Len(p.enum) : v.s = p.enum[k]
    /\ p.ranged => (v.n >= p.minimum /\ v.n <= p.maximum)

\* args satisfy an inputSchema: the required fields are present and every
\* listed property that is present satisfies its entry; other fields are free
SatisfiesAdvertised(schema, args) ==
    /\ \A k \in 1..Len(schema.required) : schema.required[k] \in DOMAIN args
    /\ \A k \in 1..Len(schema.properties) :
          schema.properties[k].name \in DOMAIN args
              => SatisfiesProperty(schema.properties[k], args[schema.properties[k].name])

\* the validation of the last call accepted its arguments
LastArgsAccepted == Len(last.trace) > 1

\* C13: for each of the three tools, callTool's validation accepts an argument
\* mapping if and only if the mapping satisfies the inputSchema the discovery
\* call returns for the tool; a mapping with an empty-string videoUrl,
\* transcript or prompt that satisfies it reaches the handler.
C13_CatalogAgreesWithValidator ==
    (last.valid /\ last.name \in Registered)
        => (LastArgsAccepted <=> SatisfiesAdvertised(AdvertisedSchema(last.name), last.args))

\* a call whose arguments satisfy the advertised schema of
\* get_youtube_transcript with an empty videoUrl has been rejected by the
\* validation
C13_Witness ==
    /\ last.valid
    /\ last.name = "get_youtube_transcript"
    /\ last.args = [videoUrl |-> Str("")]
    /\ SatisfiesAdvertised(AdvertisedSchema(last.name), last.args)
    /\ last.trace = <<"parse">>
    /\ Fulfilled
    /\ IsErrorSet(LastResult)

\* a required string the validation wants non-empty is empty
EmptyRequiredString(name, args) ==
    \E f \in {"videoUrl", "transcript", "prompt"} :
        f \in DeclaredFields(name) /\ Get(args, f) = Str("")

\* the validation accepts nothing the advertised schema rejects, and rejects
\* of what the advertised schema accepts only the empty required strings
ValidatorStricterOnEmptyStrings ==
    (last.valid /\ last.name \in Registered)
        => /\ LastArgsAccepted => SatisfiesAdvertised(AdvertisedSchema(last.name), last.args)
           /\ (SatisfiesAdvertised(AdvertisedSchema(last.name), last.args) /\ ~LastArgsAccepted)
                 => EmptyRequiredString(last.name, last.args)

====
